---- MODULE Spec2Model ----
(***************************************************************************)
(* State-machine model of agent_tourist.py: the in-memory CALL_STATE map,  *)
(* the /trigger_event endpoint with its LLM decision step, and the two     *)
(* Twilio webhooks /twilio/voice and /twilio/gather.                       *)
(*                                                                         *)
(* The handlers are asyncio coroutines on one event loop.  The only await  *)
(* that separates work inside a handler is the oracle call in              *)
(* llm_decide_action (the Twilio client calls are synchronous), so a       *)
(* trigger request is two steps (received, oracle answered) and each       *)
(* webhook is one step.                                                    *)
(***************************************************************************)
EXTENDS Integers, Sequences, FiniteSets, TLC

VARIABLES
    CALL_STATE,  \* the dict CALL_STATE: call id -> metadata
    inflight,    \* trigger requests awaiting the oracle
    nreq,        \* trigger requests received so far
    nextSid,     \* the next call id the carrier hands out
    ncb,         \* webhook callbacks handled so far
    prompts,     \* per call id: voice prompts spoken from a stored session
    alerts,      \* per call id: runs of the escalation branch on a stored session
    last         \* the handler that finished last: its inputs and its reply

vars == <<CALL_STATE, inflight, nreq, nextSid, ncb, prompts, alerts, last>>

(* ---------------- bounds of the model ---------------- *)
\* trigger requests accepted in one run (also the number of carrier call ids)
MaxTriggers == 1
\* largest max_attempts the oracle answers with
MaxOracleAttempts == 1
\* webhook callbacks (voice and gather together) handled in one run
MaxCallbacks == 3

(* ---------------- optional values (Python None) ---------------- *)
None == <<>>
Some(x) == <<x>>
IsSome(o) == o # None
Val(o) == o[1]

(* ---------------- text, as tuples of characters ---------------- *)
LowerChar(c) ==
    CASE c = "A" -> "a" [] c = "B" -> "b" [] c = "C" -> "c" [] c = "D" -> "d"
      [] c = "E" -> "e" [] c = "F" -> "f" [] c = "G" -> "g" [] c = "H" -> "h"
      [] c = "I" -> "i" [] c = "J" -> "j" [] c = "K" -> "k" [] c = "L" -> "l"
      [] c = "M" -> "m" [] c = "N" -> "n" [] c = "O" -> "o" [] c = "P" -> "p"
      [] c = "Q" -> "q" [] c = "R" -> "r" [] c = "S" -> "s" [] c = "T" -> "t"
      [] c = "U" -> "u" [] c = "V" -> "v" [] c = "W" -> "w" [] c = "X" -> "x"
      [] c = "Y" -> "y" [] c = "Z" -> "z" [] OTHER -> c

\* str.lower()
Lower(s) == [i \in 1..Len(s) |-> LowerChar(s[i])]

\* sub in s  (Python substring test)
Contains(s, sub) ==
    \E i \in 1..(Len(s) - Len(sub) + 1) : SubSeq(s, i, i + Len(sub) - 1) = sub

T_safe == <<"s", "a", "f", "e">>
T_call == <<"c", "a", "l", "l">>
T_notify == <<"n", "o", "t", "i", "f", "y">>

(* ---------------- inputs ---------------- *)
\* user_id of a trigger event; no handler reads it back
Users == {101}
Sid(n) == <<"CA", n>>
TmpKey(n) == <<"uuid", n>>
Sids == {Sid(n) : n \in 1..MaxTriggers}

\* Digits form field: absent, or one key (num_digits=1)
DigitInputs == {None, Some("1"), Some("2"), Some("5")}

\* SpeechResult form field: absent, or the transcription
SpeechInputs ==
    { None,
      Some(<<"I", "'", "m", " ", "S", "a", "f", "e">>),
      Some(<<"h", "e", "l", "p">>) }

\* action texts the oracle may answer with
ActionTexts ==
    { <<"C", "A", "L", "L">>,
      <<"N", "o", "t", "i", "f", "y">>,
      <<"i", "g", "n", "o", "r", "e">> }

OracleMessage == "oracle message"
FallbackMessage == "Hello, this is Tourist Safety. We detected unusual activity. Are you safe? Press 1 for Yes, 2 for Help."
DefaultPrompt == "We noticed unusual activity. Are you safe? Press 1 for Yes, 2 for Help."
FallbackMaxAttempts == 2

\* JSON objects the oracle's text may parse into
OracleDecisions ==
    [action : ActionTexts, message : {OracleMessage}, escalation : {TRUE},
     max_attempts : 1..MaxOracleAttempts]

\* what the HTTP call to the oracle can end in
OracleOutcomes ==
    { [kind |-> "fail"], [kind |-> "garbage"], [kind |-> "nondict"] }
    \cup { [kind |-> "json", decision |-> d] : d \in OracleDecisions }

(* ---------------- llm_decide_action ---------------- *)
FallbackDecision ==
    [action |-> T_call, message |-> FallbackMessage, escalation |-> TRUE,
     max_attempts |-> FallbackMaxAttempts]

\* The POST, raise_for_status and the indexing of the reply are outside the
\* try block: any failure there propagates.  Only json.loads is guarded.
llm_decide_action(outcome) ==
    CASE outcome.kind = "fail"    -> [raised |-> TRUE,  isdict |-> FALSE, decision |-> FallbackDecision]
      [] outcome.kind = "garbage" -> [raised |-> FALSE, isdict |-> TRUE,  decision |-> FallbackDecision]
      [] outcome.kind = "nondict" -> [raised |-> FALSE, isdict |-> FALSE, decision |-> FallbackDecision]
      [] OTHER                    -> [raised |-> FALSE, isdict |-> TRUE,  decision |-> outcome.decision]

(* ---------------- CALL_STATE records ---------------- *)
\* a dict value of CALL_STATE; a key the dict lacks is None here
EmptyMeta ==
    [user_id |-> None, message |-> None, decision |-> None, attempts |-> None,
     twilio_sid |-> None, response |-> None]

NewSession(user, decision) ==
    [user_id |-> Some(user), message |-> Some(decision.message),
     decision |-> Some(decision), attempts |-> Some(0),
     twilio_sid |-> None, response |-> None]

Put(store, k, v) == [x \in (DOMAIN store) \cup {k} |-> IF x = k THEN v ELSE store[x]]
Pop(store, k) == [x \in (DOMAIN store) \ {k} |-> store[x]]
Get(store, k) == IF k \in DOMAIN store THEN store[k] ELSE EmptyMeta

\* the record under k was written by trigger_event (it has the attempts key)
IsSession(store, k) == k \in DOMAIN store /\ IsSome(store[k].attempts)
MaxAttemptsOf(store, k) == Val(store[k].decision).max_attempts

NoOp ==
    [op |-> "none", key |-> None, user |-> None, oracle |-> "none",
     decided |-> None, status |-> "none", digits |-> None, speech |-> None,
     reply |-> "none", message |-> None, known |-> FALSE, carrier_ok |-> FALSE,
     repeat |-> FALSE]

Init ==
    /\ CALL_STATE = [k \in {} |-> EmptyMeta]
    /\ inflight = {}
    /\ nreq = 0
    /\ nextSid = 1
    /\ ncb = 0
    /\ prompts = [s \in Sids |-> 0]
    /\ alerts = [s \in Sids |-> 0]
    /\ last = NoOp

(* ---------------- POST /trigger_event ---------------- *)
\* the request arrives and the handler awaits the oracle (line 195)
TriggerReceive(u) ==
    /\ nreq < MaxTriggers
    /\ nreq' = nreq + 1
    /\ inflight' = inflight \cup {[req |-> nreq + 1, user_id |-> u]}
    /\ UNCHANGED <<CALL_STATE, nextSid, ncb, prompts, alerts, last>>

\* a rekey that copies the record to the carrier id and forgets the pop
Rekey_KeepsOld(store, old, new) ==
    Put(store, new, [store[old] EXCEPT !.twilio_sid = Some(new)])

\* CALL_STATE.pop(call_sid) stored under twilio_call.sid, then the
\* twilio_sid field is set on it
Rekey(store, old, new) ==
    LET moved == Put(Pop(store, old), new, store[old])
    IN  Put(moved, new, [moved[new] EXCEPT !.twilio_sid = Some(new)])

\* the action text compared as written, without lower()
IsCall_CaseSensitive(d) == d.action = T_call

\* decision.get("action","").lower() == "call"
IsCall(d) == Lower(d.action) = T_call

\* the rest of the handler once the oracle call has ended; no await is left,
\* twilio.calls.create and twilio.messages.create block the event loop.
\* carrier_ok = the Twilio client call returns instead of raising.
trigger_event(store, r, outcome, carrier_ok, sid) ==
    LET res == llm_decide_action(outcome)
        d == res.decision
        tmp == TmpKey(r.req)
        created == Put(store, tmp, NewSession(r.user_id, d))
    IN  IF res.raised \/ ~res.isdict
        THEN [store |-> store, status |-> "error", sid |-> None]
        ELSE IF IsCall(d)
        THEN IF carrier_ok
             THEN [store |-> Rekey(created, tmp, sid), status |-> "calling",
                   sid |-> Some(sid)]
             ELSE [store |-> created, status |-> "error", sid |-> None]
        ELSE IF Lower(d.action) = T_notify
        THEN [store |-> store,
              status |-> IF carrier_ok THEN "notified" ELSE "error",
              sid |-> None]
        ELSE [store |-> store, status |-> "ignored", sid |-> None]

TriggerEvent(r, outcome, carrier_ok) ==
    /\ r \in inflight
    /\ LET res == llm_decide_action(outcome)
           out == trigger_event(CALL_STATE, r, outcome, carrier_ok, Sid(nextSid))
       IN  /\ CALL_STATE' = out.store
           /\ nextSid' = IF out.status = "calling" THEN nextSid + 1 ELSE nextSid
           /\ last' = [NoOp EXCEPT !.op = "trigger", !.key = out.sid,
                                   !.user = Some(r.user_id),
                                   !.oracle = outcome.kind,
                                   !.decided = IF res.raised THEN None
                                               ELSE IF res.isdict THEN Some(res.decision)
                                               ELSE Some("not a dict"),
                                   !.status = out.status,
                                   !.carrier_ok = carrier_ok]
    /\ inflight' = inflight \ {r}
    /\ UNCHANGED <<nreq, ncb, prompts, alerts>>

(* ---------------- POST /twilio/voice ---------------- *)
\* meta.get("message", default)
PromptMessage(store, call_sid) ==
    LET meta == Get(store, call_sid)
    IN  IF IsSome(meta.message) THEN Val(meta.message) ELSE DefaultPrompt

TwilioVoice(call_sid) ==
    /\ ncb < MaxCallbacks
    /\ ncb' = ncb + 1
    /\ prompts' = IF IsSession(CALL_STATE, call_sid)
                  THEN [prompts EXCEPT ![call_sid] = @ + 1] ELSE prompts
    /\ last' = [NoOp EXCEPT !.op = "voice", !.key = Some(call_sid),
                            !.reply = "prompt",
                            !.message = Some(PromptMessage(CALL_STATE, call_sid)),
                            !.known = call_sid \in DOMAIN CALL_STATE]
    /\ UNCHANGED <<CALL_STATE, inflight, nreq, nextSid, alerts>>

(* ---------------- POST /twilio/gather ---------------- *)
\* variants of the branch at line 168 with a slip in it
IsSafe_SpeechFirst(digits, speech) ==
    IF IsSome(speech) /\ Val(speech) # <<>>
    THEN Contains(Lower(Val(speech)), T_safe)
    ELSE digits = Some("1")

IsSafe_UnlessTwo(digits, speech) ==
    \/ digits # Some("2")
    \/ (IsSome(speech) /\ Val(speech) # <<>> /\ Contains(Lower(Val(speech)), T_safe))

\* the branch at line 168
IsSafe(digits, speech) ==
    \/ digits = Some("1")
    \/ (IsSome(speech) /\ Val(speech) # <<>> /\ Contains(Lower(Val(speech)), T_safe))

\* a variant that also counts the callback as an attempt
SaveResponse_CountsAttempt(store, call_sid, digits, speech) ==
    LET meta == Get(store, call_sid)
    IN  Put(store, call_sid,
            [meta EXCEPT !.response = Some([digits |-> digits, speech |-> speech]),
                         !.attempts = IF IsSome(@) THEN Some(Val(@) + 1) ELSE @])

\* a variant where the records share one response slot
SaveResponse_Shared(store, call_sid, digits, speech) ==
    LET keys == (DOMAIN store) \cup {call_sid}
    IN  [k \in keys |->
            [Get(store, k) EXCEPT !.response = Some([digits |-> digits, speech |-> speech])]]

\* CALL_STATE.setdefault(call_sid, {})['response'] = {...}
SaveResponse(store, call_sid, digits, speech) ==
    Put(store, call_sid,
        [Get(store, call_sid) EXCEPT !.response = Some([digits |-> digits, speech |-> speech])])

GatherReply(digits, speech) ==
    IF IsSafe(digits, speech) THEN "safe_goodbye" ELSE "alerted"

TwilioGather(call_sid, digits, speech) ==
    LET reply == GatherReply(digits, speech)
    IN  /\ ncb < MaxCallbacks
        /\ ncb' = ncb + 1
        /\ CALL_STATE' = SaveResponse(CALL_STATE, call_sid, digits, speech)
        /\ alerts' = IF reply = "alerted" /\ IsSession(CALL_STATE, call_sid)
                     THEN [alerts EXCEPT ![call_sid] = @ + 1] ELSE alerts
        /\ last' = [NoOp EXCEPT !.op = "gather", !.key = Some(call_sid),
                                !.digits = digits, !.speech = speech,
                                !.reply = reply,
                                !.known = call_sid \in DOMAIN CALL_STATE,
                                !.repeat = Get(CALL_STATE, call_sid).response
                                             = Some([digits |-> digits, speech |-> speech])]
        /\ UNCHANGED <<inflight, nreq, nextSid, prompts>>

Next ==
    \/ \E u \in Users : TriggerReceive(u)
    \/ \E r \in inflight, o \in OracleOutcomes, ok \in BOOLEAN : TriggerEvent(r, o, ok)
    \/ \E s \in Sids : TwilioVoice(s)
    \/ \E s \in Sids, d \in DigitInputs, sp \in SpeechInputs : TwilioGather(s, d, sp)

Spec == Init /\ [][Next]_vars

(* ======================= properties ======================= *)
LastKey == Val(last.key)
LastOnSession ==
    /\ last.op \in {"voice", "gather"}
    /\ IsSession(CALL_STATE, LastKey)
NoInput == last.digits = None /\ last.speech = None

\* C1: whenever the oracle call fails (unreachable, HTTP error status or
\* timeout), llm_decide_action returns the fallback decision: action CALL,
\* escalation true, max attempts 2.
C1_OracleFailureYieldsFallback ==
    (last.op = "trigger" /\ last.oracle = "fail")
        => /\ IsSome(last.decided)
           /\ Lower(Val(last.decided).action) = T_call
           /\ Val(last.decided).escalation = TRUE
           /\ Val(last.decided).max_attempts = 2

\* C2: when the oracle call fails and the carrier accepts the dial,
\* trigger_event still creates the session, places the call and answers
\* status "calling".
C2_OracleFailureStillCalling ==
    (last.op = "trigger" /\ last.oracle = "fail" /\ last.carrier_ok)
        => /\ last.status = "calling"
           /\ IsSome(last.key)
           /\ IsSession(CALL_STATE, LastKey)

\* C3: for every session the attempts made, i.e. the voice prompts delivered
\* for it, never exceed the decision's max_attempts.
C3_AttemptsWithinBudget ==
    \A s \in Sids :
        IsSession(CALL_STATE, s)
            => /\ Val(CALL_STATE[s].attempts) <= MaxAttemptsOf(CALL_STATE, s)
               /\ prompts[s] <= MaxAttemptsOf(CALL_STATE, s)

\* C4: after a gather callback with no keypress and no speech on a session
\* whose attempts are used up, the escalation has run exactly once for that
\* session (the session is terminal, nothing runs it again).
C4_NoInputFinalAttemptEscalatesOnce ==
    ( /\ last.op = "gather"
      /\ NoInput
      /\ IsSession(CALL_STATE, LastKey)
      /\ prompts[LastKey] >= MaxAttemptsOf(CALL_STATE, LastKey) )
        => alerts[LastKey] = 1

\* C5: in every interleaving of callbacks the escalation branch runs at most
\* once per session.
C5_EscalationAtMostOnce ==
    \A s \in Sids : alerts[s] <= 1

\* C6: a gather callback with keypress "1" gets the safe reply, whatever the
\* speech field holds.
C6_KeypressOneIsSafe ==
    (last.op = "gather" /\ last.digits = Some("1"))
        => last.reply = "safe_goodbye"

C6_Witness ==
    /\ last.op = "gather"
    /\ last.digits = Some("1")
    /\ last.speech = Some(<<"h", "e", "l", "p">>)
    /\ IsSession(CALL_STATE, LastKey)
    /\ last.reply = "safe_goodbye"

\* C7: when a gather callback for a session carries a keypress, the keypress
\* alone decides: a keypress other than "1" never gets the safe reply,
\* whatever the speech.
C7_KeypressDecidesClassification ==
    ( /\ last.op = "gather"
      /\ IsSession(CALL_STATE, LastKey)
      /\ IsSome(last.digits)
      /\ last.digits # Some("1") )
        => last.reply # "safe_goodbye"

\* C8: a gather callback with keypress "2" for a session gets the escalation
\* reply at once, for every number of attempts made, and leaves the attempts
\* counter alone.
C8_KeypressTwoEscalates ==
    ( /\ last.op = "gather"
      /\ IsSession(CALL_STATE, LastKey)
      /\ last.digits = Some("2") )
        => /\ last.reply = "alerted"
           /\ Val(CALL_STATE[LastKey].attempts) = 0

\* C9: a gather callback with no keypress and no speech gets the escalation
\* reply, never a retry; in particular on a session with
\* attempts = max_attempts - 1.
C9_NoInputLastAttemptEscalates ==
    (last.op = "gather" /\ NoInput) => last.reply = "alerted"

C9_Witness ==
    /\ last.op = "gather"
    /\ NoInput
    /\ IsSession(CALL_STATE, LastKey)
    /\ Val(CALL_STATE[LastKey].attempts) = MaxAttemptsOf(CALL_STATE, LastKey) - 1
    /\ last.reply = "alerted"
    /\ alerts[LastKey] = 1

\* C10: a gather callback with no input, or with a keypress that is neither
\* "1" nor "2" and no speech, on a session with attempts left gets a retry.
C10_OtherInputRetriesWithinBudget ==
    ( /\ last.op = "gather"
      /\ last.digits \in {None, Some("5")}
      /\ last.speech = None
      /\ IsSession(CALL_STATE, LastKey)
      /\ Val(CALL_STATE[LastKey].attempts) < MaxAttemptsOf(CALL_STATE, LastKey)
      /\ prompts[LastKey] < MaxAttemptsOf(CALL_STATE, LastKey) )
        => last.reply = "retry"

\* the payload a gather callback carries
Payload(d, sp) == Some([digits |-> d, speech |-> sp])

\* how a stored session has been answered, read off its saved response
Disposition(store, k) ==
    IF store[k].response = None THEN "open"
    ELSE IF IsSafe(Val(store[k].response).digits, Val(store[k].response).speech)
         THEN "safe" ELSE "escalated"

\* the step just taken ended a webhook callback (voice or gather); last'
\* holds its call id and inputs
CallbackStep == ncb' = ncb + 1

\* C11: a gather callback that repeats, payload for payload, the one that
\* answered a session safe leaves CALL_STATE as it is and runs no escalation.
C11_RepeatOnSafeIsNoOp ==
    [][ ( /\ CallbackStep
          /\ last'.op = "gather"
          /\ IsSession(CALL_STATE, Val(last'.key))
          /\ CALL_STATE[Val(last'.key)].response = Payload(last'.digits, last'.speech)
          /\ Disposition(CALL_STATE, Val(last'.key)) = "safe" )
        => /\ CALL_STATE' = CALL_STATE
           /\ alerts' = alerts
           /\ last'.reply = "safe_goodbye" ]_vars

C11_Witness ==
    /\ last.op = "gather"
    /\ last.repeat
    /\ IsSession(CALL_STATE, LastKey)
    /\ last.reply = "safe_goodbye"
    /\ alerts[LastKey] = 0

\* C12: a voice or gather callback for a call id that CALL_STATE does not
\* hold leaves CALL_STATE without that id: no record is created.
C12_UnknownIdLeavesStoreAlone ==
    (last.op \in {"voice", "gather"} /\ ~last.known)
        => LastKey \notin DOMAIN CALL_STATE

TmpKeys == {TmpKey(n) : n \in 1..MaxTriggers}
SessionKeys(store) == {k \in DOMAIN store : IsSession(store, k)}
Finished == nreq - Cardinality(inflight)

\* C13: in every state between handlers each session sits under exactly one
\* key: every call the carrier accepted has its session under the carrier id
\* (so the voice callback finds it and speaks its message), a session whose
\* dial failed sits under its temporary id only, and no finished trigger
\* request left two records.
C13_SessionUnderExactlyOneKey ==
    /\ \A n \in 1..(nextSid - 1) :
          /\ IsSession(CALL_STATE, Sid(n))
          /\ CALL_STATE[Sid(n)].twilio_sid = Some(Sid(n))
    /\ \A k \in SessionKeys(CALL_STATE) :
          \/ k \in TmpKeys /\ CALL_STATE[k].twilio_sid = None
          \/ \E n \in 1..(nextSid - 1) : k = Sid(n)
    /\ Cardinality(SessionKeys(CALL_STATE)) <= Finished
    /\ (last.op = "voice" /\ LastKey \in {Sid(n) : n \in 1..(nextSid - 1)})
          => /\ last.known
             /\ last.message = CALL_STATE[LastKey].message

C13_Witness ==
    /\ last.op = "voice"
    /\ nextSid > 1
    /\ LastKey = Sid(nextSid - 1)
    /\ last.known
    /\ last.message = CALL_STATE[LastKey].message
    /\ TmpKeys \cap DOMAIN CALL_STATE = {}

\* C14: a session whose dial failed is not left under its temporary id in
\* its initial state: between handlers no untouched session record sits
\* under a uuid key, which no callback can reach.
C14_DialFailureNotStranded ==
    \A k \in TmpKeys :
        ~( /\ IsSession(CALL_STATE, k)
           /\ CALL_STATE[k].attempts = Some(0)
           /\ CALL_STATE[k].response = None )

\* C15: once a session has been answered (safe or escalated), a later voice
\* callback for its id no longer finds it: the session's prompt message is
\* not spoken again.
C15_AnsweredSessionNotPromptedAgain ==
    ( /\ last.op = "voice"
      /\ IsSession(CALL_STATE, LastKey)
      /\ IsSome(CALL_STATE[LastKey].response) )
        => last.message # CALL_STATE[LastKey].message

\* C16: for every session still unanswered, the attempts field equals the
\* number of voice prompts delivered for it (each prompt adds one).
C16_AttemptsCountPrompts ==
    \A s \in Sids :
        (IsSession(CALL_STATE, s) /\ CALL_STATE[s].response = None)
            => Val(CALL_STATE[s].attempts) = prompts[s]

\* C17: a session that has been answered safe or escalated stays there: no
\* later step changes how it is answered.
C17_AnsweredSessionStays ==
    [][ \A s \in Sids :
          (IsSession(CALL_STATE, s) /\ Disposition(CALL_STATE, s) # "open")
              => /\ IsSession(CALL_STATE', s)
                 /\ Disposition(CALL_STATE', s) = Disposition(CALL_STATE, s) ]_vars

\* C18: a trigger_event whose carrier call id is already a key of CALL_STATE
\* leaves the record under that key as it was.
C18_RekeyNeverOverwrites ==
    [][ \A r \in inflight, o \in OracleOutcomes, ok \in BOOLEAN :
          (TriggerEvent(r, o, ok) /\ Sid(nextSid) \in DOMAIN CALL_STATE)
              => CALL_STATE'[Sid(nextSid)] = CALL_STATE[Sid(nextSid)] ]_vars

\* the step just taken ended a trigger_event request whose oracle call gave
\* a decision dict; last' holds the decision and whether the carrier call
\* returned
DecidedStep ==
    /\ nreq' = nreq
    /\ inflight' # inflight
    /\ last'.oracle \in {"json", "garbage"}

ActionOf(d) == Lower(d.action)

====
